---- MODULE Spec2Model ----
(***************************************************************************)
(* Model of the Bloomix backend's playlist planner                         *)
(* (src/app/routers/planner.py): the efficiency score, the candidate       *)
(* fetch, the related-oshi lookup and the banded random greedy composition *)
(* behind POST /api/v1/planner/playlist; and of the route helpers of       *)
(* src/app/routers/spots.py: decode_polyline and                           *)
(* calculate_distance_to_route.                                            *)
(*                                                                         *)
(* Python floats are modelled as exact rationals [num, den] with den > 0;  *)
(* for the integer ranges explored here the float comparisons of the       *)
(* source (target * 0.05 <= d <= target * 0.15, score comparisons) agree   *)
(* with the exact ones.                                                    *)
(***************************************************************************)
EXTENDS Integers, Sequences, FiniteSets, TLC

(***************************************************************************)
(* Bounds of the explored inputs.                                          *)
(***************************************************************************)
MaxTarget == 7
MaxTol == 5
MaxDuration == 3
MaxContents == 3
MaxItemsReq == 2
MaxScoreActual == 12
MaxScoreTarget == 6
MaxScoreTol == 5

MaxRelatedSpots == 2

MaxPolylineLen == 4

MaxEncodedPoints == 2

MaxLatitude == 2

MaxRouteLen == 3

MaxHaversineLatitude == 7

\* get_spots_along_route: rows of the spots table, their latitudes, limit
MaxSpotRows == 3
MaxSpotLatitude == 2
MaxLimit == 2

\* concurrent follow and unfollow requests
MaxSessions == 2

(***************************************************************************)
(* Program constants.                                                      *)
(***************************************************************************)
\* planner.py:314  request.max_items > 100 is rejected
MaxItemsLimit == 100
\* a NULL column value (models.py: duration_min, oshi_id are nullable)
NoValue == -1
\* a NULL lang column
NoLang == "NULL"

VARIABLES
    pc,                 \* position of the request in generate_playlist
    request,            \* PlaylistRequest
    db,                 \* the relational store read by the request
    priority_contents,  \* shuffled priority-band list
    other_contents,     \* other list (shuffled once the second pass starts)
    priority_pos,       \* items of priority_contents the first loop has passed
    other_pos,          \* items of other_contents the second loop has passed
    queries,            \* tables the request has queried so far
    playlist,           \* list of playlist entries
    current_duration,
    remaining_duration,
    response,           \* what the caller of the endpoint receives
    score_in,           \* arguments of a direct call of calculate_efficiency_score
    score_out,          \* its outcome
    random_inst,        \* the process-wide generator behind random.seed/shuffle
    call,               \* a direct call of one of the other functions
    outcome,            \* what it returned or raised
    spots,              \* the spots table, in the order select(Spot) yields it
    along_request,      \* query parameters of get_spots_along_route
    along_route_points, \* its decoded route
    candidates,         \* its pre-fetched rows
    scanned,            \* candidates its loop has passed
    along_items,        \* its list of matching spots
    along_response,     \* what its caller receives
    user_oshi,          \* committed rows of the user_oshi table
    sessions            \* the follow/unfollow requests in flight

along_vars == <<spots, along_request, along_route_points, candidates,
                scanned, along_items, along_response>>

follow_vars == <<user_oshi, sessions>>

vars == <<pc, request, db, priority_contents, other_contents, priority_pos,
          other_pos, queries, playlist, current_duration, remaining_duration,
          response, score_in, score_out, random_inst, call, outcome,
          spots, along_request, along_route_points, candidates, scanned,
          along_items, along_response, user_oshi, sessions>>

(***************************************************************************)
(* Rational arithmetic standing for Python float arithmetic.               *)
(***************************************************************************)
Rat(n, d) == [num |-> n, den |-> d]

RatSub(a, b) == Rat(a.num * b.den - b.num * a.den, a.den * b.den)

RatMul(a, b) == Rat(a.num * b.num, a.den * b.den)

RatLeq(a, b) == a.num * b.den <= b.num * a.den

RatLt(a, b) == a.num * b.den < b.num * a.den

RatEq(a, b) == a.num * b.den = b.num * a.den

\* Python's max(a, b): b only when b > a
RatMax(a, b) == IF RatLt(a, b) THEN b ELSE a

\* outcome of a call: a float, or the ZeroDivisionError Python raises
Returned(r) == [raised |-> FALSE, num |-> r.num, den |-> r.den]

ZeroDivisionError == [raised |-> TRUE, num |-> 0, den |-> 1]

\* Python's a / b on ints
Div(a, b) == IF b = 0 THEN ZeroDivisionError ELSE
             IF b < 0 THEN Returned(Rat(-a, -b)) ELSE Returned(Rat(a, b))

\* mutant: the penalty computed from the whole overage, tolerance not
\* subtracted
ScoreWholeOveragePenalty(actual_min, target_min, tolerance_min) ==
    IF actual_min <= target_min
    THEN Returned(Rat(1, 1))
    ELSE LET overage == actual_min - target_min IN
         IF overage <= tolerance_min
         THEN LET q == Div(overage, tolerance_min) IN
              IF q.raised THEN ZeroDivisionError
              ELSE Returned(RatSub(Rat(1, 1), RatMul(q, Rat(2, 10))))
         ELSE LET penalty == Div(overage, target_min) IN
              IF penalty.raised THEN ZeroDivisionError
              ELSE Returned(RatMax(Rat(0, 1), RatSub(Rat(8, 10), penalty)))

\* mutant: the penalty branch without max(0.0, ...)
ScoreUnclamped(actual_min, target_min, tolerance_min) ==
    IF actual_min <= target_min
    THEN Returned(Rat(1, 1))
    ELSE LET overage == actual_min - target_min IN
         IF overage <= tolerance_min
         THEN LET q == Div(overage, tolerance_min) IN
              IF q.raised THEN ZeroDivisionError
              ELSE Returned(RatSub(Rat(1, 1), RatMul(q, Rat(2, 10))))
         ELSE LET penalty == Div(overage - tolerance_min, target_min) IN
              IF penalty.raised THEN ZeroDivisionError
              ELSE Returned(RatSub(Rat(8, 10), penalty))

\* mutant: the within-tolerance test written with >= instead of <=
ScoreToleranceTestReversed(actual_min, target_min, tolerance_min) ==
    IF actual_min <= target_min
    THEN Returned(Rat(1, 1))
    ELSE LET overage == actual_min - target_min IN
         IF overage >= tolerance_min
         THEN LET q == Div(overage, tolerance_min) IN
              IF q.raised THEN ZeroDivisionError
              ELSE Returned(RatSub(Rat(1, 1), RatMul(q, Rat(2, 10))))
         ELSE LET penalty == Div(overage - tolerance_min, target_min) IN
              IF penalty.raised THEN ZeroDivisionError
              ELSE Returned(RatMax(Rat(0, 1), RatSub(Rat(8, 10), penalty)))

(***************************************************************************)
(* calculate_efficiency_score, planner.py:48-61                            *)
(***************************************************************************)
calculate_efficiency_score(actual_min, target_min, tolerance_min) ==
    IF actual_min <= target_min
    THEN Returned(Rat(1, 1))
    ELSE LET overage == actual_min - target_min IN
         IF overage <= tolerance_min
         THEN LET q == Div(overage, tolerance_min) IN
              IF q.raised THEN ZeroDivisionError
              ELSE Returned(RatSub(Rat(1, 1), RatMul(q, Rat(2, 10))))
         ELSE LET penalty == Div(overage - tolerance_min, target_min) IN
              IF penalty.raised THEN ZeroDivisionError
              ELSE Returned(RatMax(Rat(0, 1), RatSub(Rat(8, 10), penalty)))

(***************************************************************************)
(* The relational store (models.py) as far as the planner reads it.        *)
(* A Content row is [id, oshi_id, duration_min, media_type, lang]; the     *)
(* link tables are sets of pairs; user_oshi holds the oshi ids followed by *)
(* the requesting user, users whether that user's row exists.              *)
(***************************************************************************)
Oshis == {1, 2}

\* the oshis table; names are unique (models.py:34)
OshiTable == {[id |-> 1, name |-> "Oshi A"], [id |-> 2, name |-> "Oshi B"]}

Spots == {1}

Content(id, oshi_id, duration_min, media_type, lang) ==
    [id |-> id, oshi_id |-> oshi_id, duration_min |-> duration_min,
     media_type |-> media_type, lang |-> lang]

\* ascending list of a finite set of integers (the order rows come back in)
RECURSIVE SortedSeq(_)
SortedSeq(S) ==
    IF S = {} THEN <<>>
    ELSE LET m == CHOOSE x \in S : \A y \in S : x <= y
         IN  <<m>> \o SortedSeq(S \ {m})

Range(s) == {s[i] : i \in 1 .. Len(s)}

\* rows of a query over contents, listed by id
RowsById(rows) ==
    LET ids == SortedSeq({c.id : c \in rows})
    IN  [i \in 1 .. Len(ids) |-> CHOOSE c \in rows : c.id = ids[i]]

(***************************************************************************)
(* The candidate fetch of generate_playlist_greedy, planner.py:143-201     *)
(***************************************************************************)
\* the filter shared by both content queries, planner.py:157-163, 186-192
ContentFilter(c, req) ==
    /\ c.duration_min # NoValue
    /\ c.duration_min > 0
    /\ c.media_type \in req.content_types
    /\ (c.lang \in req.preferred_langs \/ c.lang = NoLang)

\* planner.py:144-148
FollowedOshiIds(d) == SortedSeq(d.user_oshi)

\* planner.py:154-165
DirectContents(d, req) ==
    RowsById({c \in d.contents :
                 /\ c.oshi_id \in Range(FollowedOshiIds(d))
                 /\ ContentFilter(c, req)})

\* planner.py:171-195, one iteration of the loop over oshi_ids
SpotContents(d, req, oshi_id) ==
    LET spot_ids == {so[1] : so \in {x \in d.spot_oshi : x[2] = oshi_id}}
        content_ids == {sc[2] : sc \in {x \in d.spot_content : x[1] \in spot_ids}}
    IN  IF spot_ids = {} \/ content_ids = {} THEN <<>>
        ELSE RowsById({c \in d.contents :
                          c.id \in content_ids /\ ContentFilter(c, req)})

RECURSIVE AllSpotContents(_, _, _)
AllSpotContents(d, req, oshi_ids) ==
    IF oshi_ids = <<>> THEN <<>>
    ELSE SpotContents(d, req, Head(oshi_ids))
             \o AllSpotContents(d, req, Tail(oshi_ids))

\* planner.py:151-195
FollowedContents(d, req) ==
    DirectContents(d, req) \o AllSpotContents(d, req, FollowedOshiIds(d))

\* mutant: only the repetitions of the first row are dropped
UniqueContentsOfFirstRowOnly(cs) ==
    IF cs = <<>> THEN <<>>
    ELSE <<Head(cs)>> \o SelectSeq(Tail(cs), LAMBDA c : c.id # Head(cs).id)

\* planner.py:201  list({content.id: content for ...}.values())
RECURSIVE UniqueContents(_)
UniqueContents(cs) ==
    IF cs = <<>> THEN <<>>
    ELSE LET rest == UniqueContents(SelectSeq(Tail(cs), LAMBDA c : c.id # Head(cs).id))
         IN  <<Head(cs)>> \o rest

(***************************************************************************)
(* get_related_oshis_for_content, planner.py:88-118.  The outcome lists    *)
(* the names and the tables the call has queried.  Rows of a query without *)
(* ORDER BY are taken in key order.                                        *)
(***************************************************************************)
\* planner.py:94, 112  db.query(Oshi).filter(Oshi.id == ...).first()
OshiRows(d, oshi_id) == {o \in d.oshis : o.id = oshi_id}

\* planner.py:95-96, 113-114
AppendName(related_oshis, d, oshi_id) ==
    IF OshiRows(d, oshi_id) = {} THEN related_oshis
    ELSE LET name == (CHOOSE o \in OshiRows(d, oshi_id) : TRUE).name
         IN  IF name \in Range(related_oshis) THEN related_oshis
             ELSE Append(related_oshis, name)

RECURSIVE AppendNames(_, _, _)
AppendNames(related_oshis, d, ids) ==
    IF ids = <<>> THEN related_oshis
    ELSE AppendNames(AppendName(related_oshis, d, Head(ids)), d, Tail(ids))

\* planner.py:100-102
RelatedSpots(d, content) ==
    SortedSeq({sc[1] : sc \in {x \in d.spot_content : x[2] = content.id}})

\* planner.py:104-111: the followed oshi ids met by the two nested loops
RECURSIVE SpotOshiIds(_, _, _)
SpotOshiIds(d, spot_ids, oshi_ids) ==
    IF spot_ids = <<>> THEN <<>>
    ELSE SelectSeq(SortedSeq({so[2] : so \in {x \in d.spot_oshi :
                                                 x[1] = Head(spot_ids)}}),
                   LAMBDA o : o \in Range(oshi_ids))
             \o SpotOshiIds(d, Tail(spot_ids), oshi_ids)

\* planner.py:92-96
DirectOshis(content, d) ==
    IF content.oshi_id # NoValue /\ content.oshi_id # 0
    THEN [names |-> AppendName(<<>>, d, content.oshi_id), queried |-> {"oshis"}]
    ELSE [names |-> <<>>, queried |-> {}]

\* planner.py:99-114
SpotOshis(content, oshi_ids, d) ==
    LET related_spots == RelatedSpots(d, content)
        ids == SpotOshiIds(d, related_spots, oshi_ids)
    IN  [names |-> AppendNames(<<>>, d, ids),
         queried |-> {"spot_content"}
                        \cup (IF related_spots # <<>> THEN {"spot_oshi"} ELSE {})
                        \cup (IF ids # <<>> THEN {"oshis"} ELSE {})]

\* mutant: the spot lookup runs whatever the direct lookup has found
RelatedOshisAlwaysThroughSpots(content, oshi_ids, d) ==
    LET direct == DirectOshis(content, d)
        ids == SpotOshiIds(d, RelatedSpots(d, content), oshi_ids)
    IN  [names |-> AppendNames(direct.names, d, ids),
         queried |-> direct.queried \cup SpotOshis(content, oshi_ids, d).queried]

get_related_oshis_for_content(content, oshi_ids, d) ==
    LET direct == DirectOshis(content, d)
    IN  IF direct.names # <<>> THEN direct
        ELSE LET through_spots == SpotOshis(content, oshi_ids, d)
             IN  [names |-> through_spots.names,
                  queried |-> direct.queried \cup through_spots.queried]

(***************************************************************************)
(* The priority band, planner.py:204-217.  target * 0.05 and target * 0.15 *)
(* are compared exactly (in hundredths).                                   *)
(***************************************************************************)
\* mutant: the band without its upper limit
InPriorityBandNoUpperLimit(duration_min, target_duration_min) ==
    5 * target_duration_min <= 100 * duration_min

InPriorityBand(duration_min, target_duration_min) ==
    /\ 5 * target_duration_min <= 100 * duration_min
    /\ 100 * duration_min <= 15 * target_duration_min

InOther(duration_min, target_duration_min) ==
    \/ 100 * duration_min < 5 * target_duration_min
    \/ 100 * duration_min > 15 * target_duration_min

PriorityContents(unique_contents, target) ==
    SelectSeq(unique_contents, LAMBDA c : InPriorityBand(c.duration_min, target))

OtherContents(unique_contents, target) ==
    SelectSeq(unique_contents, LAMBDA c : InOther(c.duration_min, target))

\* the list without its i-th element
RemoveAt(s, i) == SubSeq(s, 1, i - 1) \o SubSeq(s, i + 1, Len(s))

\* random.shuffle: every rearrangement of the list's positions
RECURSIVE Shuffles(_)
Shuffles(s) ==
    IF s = <<>> THEN {<<>>}
    ELSE UNION {{<<s[i]>> \o t : t \in Shuffles(RemoveAt(s, i))} :
                   i \in 1 .. Len(s)}

\* the module-level functions of random act on one generator per process
\* (random._inst); it is described by how often it was seeded and how many
\* numbers were drawn from it
FreshGenerator == [seeds |-> 0, draws |-> 0]

\* planner.py:221  random.seed()
RandomSeed(g) == [g EXCEPT !.seeds = g.seeds + 1]

\* planner.py:228, 254  random.shuffle(x) draws one number per position but
\* the first
RandomShuffle(g, x) ==
    [g EXCEPT !.draws = g.draws + (IF Len(x) > 1 THEN Len(x) - 1 ELSE 0)]

(***************************************************************************)
(* Responses.  A raised HTTPException reaches the caller as its status.    *)
(***************************************************************************)
NoSummary ==
    [total_duration_min |-> 0, target_duration_min |-> 0, overage_min |-> 0,
     efficiency_score |-> Returned(Rat(0, 1))]

NoResponse == [status |-> 0, playlist |-> <<>>, summary |-> NoSummary]

HTTPException(status_code) ==
    [status |-> status_code, playlist |-> <<>>, summary |-> NoSummary]

\* planner.py:340-343
PlaylistResponse(items, summary) ==
    [status |-> 200, playlist |-> items, summary |-> summary]

\* planner.py:292-294: whatever is raised inside generate_playlist_greedy's
\* try block, an HTTPException included, is caught and replaced by a 500;
\* planner.py:345-346 then re-raises that HTTPException unchanged.
RaisedInGreedy(exc) == HTTPException(500)

(***************************************************************************)
(* generate_playlist, planner.py:299-349                                   *)
(***************************************************************************)
\* mutant: the validation without the upper limit on max_items
InvalidRequestNoUpperLimit(req) ==
    \/ req.target_duration_min <= 0
    \/ req.max_items <= 0
    \/ req.tolerance_min < 0

\* planner.py:311-318
InvalidRequest(req) ==
    \/ req.target_duration_min <= 0
    \/ req.max_items <= 0
    \/ req.max_items > MaxItemsLimit
    \/ req.tolerance_min < 0

\* tables read by planner.py:321 and by the fetch of planner.py:144-195
\* (spot_content only for an oshi that has a spot, planner.py:175); the
\* loops add those of get_related_oshis_for_content
FetchQueries(d) ==
    {"users", "user_oshi", "contents", "spot_oshi"}
        \cup (IF \E x \in d.spot_oshi : x[2] \in d.user_oshi
              THEN {"spot_content"} ELSE {})

\* planner.py:311-318: a validation failure answers 400 before any query
RejectInvalid ==
    /\ pc = "start"
    /\ InvalidRequest(request)
    /\ response' = HTTPException(400)
    /\ pc' = "done"
    /\ UNCHANGED <<request, db, priority_contents, other_contents,
                   priority_pos, other_pos, queries, playlist,
                   current_duration, remaining_duration, score_in, score_out,
                   random_inst, call, outcome,
                   along_vars, follow_vars>>

\* planner.py:321-323
UserNotFound ==
    /\ pc = "start"
    /\ ~InvalidRequest(request)
    /\ ~db.users
    /\ queries' = {"users"}
    /\ response' = HTTPException(404)
    /\ pc' = "done"
    /\ UNCHANGED <<request, db, priority_contents, other_contents,
                   priority_pos, other_pos, playlist, current_duration,
                   remaining_duration, score_in, score_out,
                   random_inst, call, outcome,
                   along_vars, follow_vars>>

\* planner.py:144-146, 292-294
NoFollowedOshis ==
    /\ pc = "start"
    /\ ~InvalidRequest(request)
    /\ db.users
    /\ FollowedOshiIds(db) = <<>>
    /\ queries' = {"users", "user_oshi"}
    /\ response' = RaisedInGreedy(HTTPException(404))
    /\ pc' = "done"
    /\ UNCHANGED <<request, db, priority_contents, other_contents,
                   priority_pos, other_pos, playlist, current_duration,
                   remaining_duration, score_in, score_out,
                   random_inst, call, outcome,
                   along_vars, follow_vars>>

\* planner.py:197-198, 292-294
NoFollowedContents ==
    /\ pc = "start"
    /\ ~InvalidRequest(request)
    /\ db.users
    /\ FollowedOshiIds(db) # <<>>
    /\ FollowedContents(db, request) = <<>>
    /\ queries' = FetchQueries(db)
    /\ response' = RaisedInGreedy(HTTPException(404))
    /\ pc' = "done"
    /\ UNCHANGED <<request, db, priority_contents, other_contents,
                   priority_pos, other_pos, playlist, current_duration,
                   remaining_duration, score_in, score_out,
                   random_inst, call, outcome,
                   along_vars, follow_vars>>

\* planner.py:143-228: fetch, deduplicate, partition, shuffle the priority
\* band and enter the first loop
StartPriorityPass ==
    /\ pc = "start"
    /\ ~InvalidRequest(request)
    /\ db.users
    /\ FollowedOshiIds(db) # <<>>
    /\ FollowedContents(db, request) # <<>>
    /\ LET unique_contents == UniqueContents(FollowedContents(db, request))
       IN  /\ priority_contents' \in
                 Shuffles(PriorityContents(unique_contents,
                                           request.target_duration_min))
           /\ other_contents' =
                 OtherContents(unique_contents, request.target_duration_min)
    /\ playlist' = <<>>
    /\ current_duration' = 0
    /\ remaining_duration' = request.target_duration_min
    /\ priority_pos' = 0
    /\ other_pos' = 0
    /\ queries' = FetchQueries(db)
    /\ random_inst' = RandomShuffle(RandomSeed(random_inst), priority_contents')
    /\ pc' = "priority"
    /\ UNCHANGED <<request, db, response, score_in, score_out, call, outcome,
                   along_vars, follow_vars>>

\* mutant: the fit test written with < instead of <=
FitsStrictly(content, remaining, tolerance_min) ==
    content.duration_min < remaining + tolerance_min

\* planner.py:233, 259
Fits(content, remaining, tolerance_min) ==
    content.duration_min <= remaining + tolerance_min

\* planner.py:235, 261
RelatedOshis(content) ==
    get_related_oshis_for_content(content, FollowedOshiIds(db), db)

\* mutant: the entry's totals taken before the item is counted
PlaylistEntryTotalBeforeAppend(content, current, target_duration_min) ==
    LET over == target_duration_min - current
    IN  [content_id |-> content.id,
         duration_min |-> content.duration_min,
         total_duration_min |-> current,
         remaining_min |-> IF over > 0 THEN over ELSE 0,
         related_oshis |-> RelatedOshis(content).names]

\* planner.py:237-247, 263-273 (title, lang, media_type, thumbnail_url are
\* copied from the row and left out)
PlaylistEntry(content, current, target_duration_min) ==
    LET total == current + content.duration_min
        over == target_duration_min - total
    IN  [content_id |-> content.id,
         duration_min |-> content.duration_min,
         total_duration_min |-> total,
         remaining_min |-> IF over > 0 THEN over ELSE 0,
         related_oshis |-> RelatedOshis(content).names]

\* mutant: the loops without the max_items break
LoopRunsUncapped(contents, pos) == pos < Len(contents)

\* planner.py:230-231, 256-257
LoopRuns(contents, pos) ==
    /\ pos < Len(contents)
    /\ Len(playlist) < request.max_items

\* mutant: a skipped item's duration is added to the running total
ScanNextCountsSkipped(content) ==
    IF Fits(content, remaining_duration, request.tolerance_min)
    THEN /\ playlist' = Append(playlist,
                PlaylistEntry(content, current_duration,
                              request.target_duration_min))
         /\ current_duration' = current_duration + content.duration_min
         /\ remaining_duration' =
                request.target_duration_min
                    - (current_duration + content.duration_min)
         /\ queries' = queries \cup RelatedOshis(content).queried
    ELSE /\ current_duration' = current_duration + content.duration_min
         /\ UNCHANGED <<playlist, remaining_duration, queries>>

\* mutant: remaining_duration is not recomputed after an append
ScanNextStaleRemaining(content) ==
    IF Fits(content, remaining_duration, request.tolerance_min)
    THEN /\ playlist' = Append(playlist,
                PlaylistEntry(content, current_duration,
                              request.target_duration_min))
         /\ current_duration' = current_duration + content.duration_min
         /\ queries' = queries \cup RelatedOshis(content).queried
         /\ UNCHANGED remaining_duration
    ELSE UNCHANGED <<playlist, current_duration, remaining_duration, queries>>

\* planner.py:229-250, 255-276: one iteration of either loop
ScanNext(content) ==
    IF Fits(content, remaining_duration, request.tolerance_min)
    THEN /\ playlist' = Append(playlist,
                PlaylistEntry(content, current_duration,
                              request.target_duration_min))
         /\ current_duration' = current_duration + content.duration_min
         /\ remaining_duration' =
                request.target_duration_min
                    - (current_duration + content.duration_min)
         /\ queries' = queries \cup RelatedOshis(content).queried
    ELSE UNCHANGED <<playlist, current_duration, remaining_duration, queries>>

\* planner.py:229-250
PriorityStep ==
    /\ pc = "priority"
    /\ LoopRuns(priority_contents, priority_pos)
    /\ ScanNext(priority_contents[priority_pos + 1])
    /\ priority_pos' = priority_pos + 1
    /\ UNCHANGED <<pc, request, db, priority_contents, other_contents,
                   other_pos, response, score_in, score_out,
                   random_inst, call, outcome,
                   along_vars, follow_vars>>

\* planner.py:253
OtherPassNeeded ==
    /\ remaining_duration > request.tolerance_min
    /\ Len(playlist) < request.max_items

\* planner.py:253-254: the first loop is over and the second pass is entered
StartOtherPass ==
    /\ pc = "priority"
    /\ ~LoopRuns(priority_contents, priority_pos)
    /\ OtherPassNeeded
    /\ other_contents' \in Shuffles(other_contents)
    /\ random_inst' = RandomShuffle(random_inst, other_contents)
    /\ pc' = "other"
    /\ UNCHANGED <<request, db, priority_contents, priority_pos, other_pos,
                   queries, playlist, current_duration, remaining_duration,
                   response, score_in, score_out, call, outcome,
                   along_vars, follow_vars>>

\* planner.py:253: the first loop is over and the second pass is not entered
SkipOtherPass ==
    /\ pc = "priority"
    /\ ~LoopRuns(priority_contents, priority_pos)
    /\ ~OtherPassNeeded
    /\ pc' = "summary"
    /\ UNCHANGED <<request, db, priority_contents, other_contents,
                   priority_pos, other_pos, queries, playlist,
                   current_duration, remaining_duration, response,
                   score_in, score_out,
                   random_inst, call, outcome,
                   along_vars, follow_vars>>

\* planner.py:255-276
OtherStep ==
    /\ pc = "other"
    /\ LoopRuns(other_contents, other_pos)
    /\ ScanNext(other_contents[other_pos + 1])
    /\ other_pos' = other_pos + 1
    /\ UNCHANGED <<pc, request, db, priority_contents, other_contents,
                   priority_pos, response, score_in, score_out,
                   random_inst, call, outcome,
                   along_vars, follow_vars>>

\* planner.py:255-257: the second loop ends
EndOtherPass ==
    /\ pc = "other"
    /\ ~LoopRuns(other_contents, other_pos)
    /\ pc' = "summary"
    /\ UNCHANGED <<request, db, priority_contents, other_contents,
                   priority_pos, other_pos, queries, playlist,
                   current_duration, remaining_duration, response,
                   score_in, score_out,
                   random_inst, call, outcome,
                   along_vars, follow_vars>>

\* mutant: the overage without max(0, ...)
OverageUnclamped(total_duration, target_duration_min) ==
    total_duration - target_duration_min

\* planner.py:280
Overage(total_duration, target_duration_min) ==
    IF total_duration - target_duration_min > 0
    THEN total_duration - target_duration_min
    ELSE 0

\* planner.py:279-288
PlaylistSummary(total_duration, target_duration_min, tolerance_min) ==
    [total_duration_min |-> total_duration,
     target_duration_min |-> target_duration_min,
     overage_min |-> Overage(total_duration, target_duration_min),
     efficiency_score |->
         calculate_efficiency_score(total_duration, target_duration_min,
                                    tolerance_min)]

\* planner.py:278-290, 338-343; a ZeroDivisionError of the score is caught at
\* planner.py:292-294
Summarize ==
    /\ pc = "summary"
    /\ LET summary == PlaylistSummary(current_duration,
                                      request.target_duration_min,
                                      request.tolerance_min)
       IN  response' = IF summary.efficiency_score.raised
                       THEN RaisedInGreedy(ZeroDivisionError)
                       ELSE PlaylistResponse(playlist, summary)
    /\ pc' = "done"
    /\ UNCHANGED <<request, db, priority_contents, other_contents,
                   priority_pos, other_pos, queries, playlist,
                   current_duration, remaining_duration, score_in, score_out,
                   random_inst, call, outcome,
                   along_vars, follow_vars>>

(***************************************************************************)
(* Direct calls of calculate_efficiency_score.                             *)
(***************************************************************************)
\* no direct call of another function is under way
NoArguments == [fn |-> "none"]

NoResult == [raised |-> FALSE]

NoCall == [actual_min |-> 0, target_min |-> 0, tolerance_min |-> 0]

ScoreActuals == (-1 .. MaxScoreActual) \cup {50, 63, 70}

ScoreTargets == (1 .. MaxScoreTarget) \cup {60}

ScoreTolerances == 0 .. MaxScoreTol

CallScore ==
    /\ pc = "score"
    /\ score_out' = calculate_efficiency_score(score_in.actual_min,
                                               score_in.target_min,
                                               score_in.tolerance_min)
    /\ pc' = "scored"
    /\ UNCHANGED <<request, db, priority_contents, other_contents,
                   priority_pos, other_pos, queries, playlist,
                   current_duration, remaining_duration, response, score_in,
                   random_inst, call, outcome,
                   along_vars, follow_vars>>

(***************************************************************************)
(* Direct calls of get_related_oshis_for_content for content 1 of a store   *)
(* with up to MaxRelatedSpots spots.                                       *)
(***************************************************************************)
RelatedSpotIds == 1 .. MaxRelatedSpots

\* stores in which content 1 is fetched for the user: its oshi is followed,
\* or one of its spots belongs to a followed oshi (planner.py:154-195)
RelatedStores ==
    {d \in [users : {TRUE},
            user_oshi : SUBSET Oshis,
            oshis : {OshiTable},
            contents : {{Content(1, o, 1, "youtube", "ja")} :
                           o \in Oshis \cup {NoValue}},
            spot_content : SUBSET {<<s, 1>> : s \in RelatedSpotIds},
            spot_oshi : SUBSET (RelatedSpotIds \X Oshis)] :
        \E c \in d.contents :
            \/ c.oshi_id \in d.user_oshi
            \/ \E sc \in d.spot_content, so \in d.spot_oshi :
                  so[1] = sc[1] /\ so[2] \in d.user_oshi}

CallRelatedOshis ==
    /\ pc = "related"
    /\ outcome' = get_related_oshis_for_content(call.content, call.oshi_ids,
                                               call.db)
    /\ pc' = "related_done"
    /\ UNCHANGED <<request, db, priority_contents, other_contents,
                   priority_pos, other_pos, queries, playlist,
                   current_duration, remaining_duration, response, score_in,
                   score_out, random_inst, call,
                   along_vars, follow_vars>>

(***************************************************************************)
(* decode_polyline, spots.py:16-60.  A string is the list of its           *)
(* characters' code points (ord); a point is the pair of lat * 1e-5 and    *)
(* lng * 1e-5 as rationals.                                                *)
(***************************************************************************)
\* byte & 0x1F on a Python int, negative ones included
BitAnd1F(byte) == byte % 32

\* x << shift
ShiftLeft(x, shift) == x * (2 ^ shift)

\* mutant: the sign bit is shifted out but the value is not complemented
ZigZagWithoutComplement(result) == result \div 2

\* spots.py:38, 51  ~(result >> 1) if (result & 1) else (result >> 1)
ZigZag(result) ==
    IF result % 2 = 1 THEN -(result \div 2) - 1 ELSE result \div 2

\* spots.py:29-37, 41-50: the inner loop from the given index on; indexing
\* past the end of the string raises IndexError.  result |= ... adds the
\* group, whose bits lie above those already set.
RECURSIVE DecodeValue(_, _, _, _)
DecodeValue(polyline, index, shift, result) ==
    IF index >= Len(polyline)
    THEN [raised |-> TRUE, index |-> index, result |-> result]
    ELSE LET byte == polyline[index + 1] - 63
             joined == result + ShiftLeft(BitAnd1F(byte), shift)
         IN  IF byte >= 32
             THEN DecodeValue(polyline, index + 1, shift + 5, joined)
             ELSE [raised |-> FALSE, index |-> index + 1, result |-> joined]

\* spots.py:52
ScaledPoint(lat, lng) == <<Rat(lat, 100000), Rat(lng, 100000)>>

\* spots.py:27-52: the outer loop
RECURSIVE DecodePoints(_, _, _, _, _)
DecodePoints(polyline, index, lat, lng, points) ==
    IF ~(index < Len(polyline)) THEN [raised |-> FALSE, points |-> points]
    ELSE LET a == DecodeValue(polyline, index, 0, 0)
         IN  IF a.raised THEN [raised |-> TRUE, points |-> points]
             ELSE LET b == DecodeValue(polyline, a.index, 0, 0)
                  IN  IF b.raised THEN [raised |-> TRUE, points |-> points]
                      ELSE DecodePoints(polyline, b.index,
                               lat + ZigZag(a.result), lng + ZigZag(b.result),
                               Append(points,
                                      ScaledPoint(lat + ZigZag(a.result),
                                                  lng + ZigZag(b.result))))

\* mutant: the except branch returns the points decoded so far
decode_polyline_keeping_points(polyline) ==
    [raised |-> FALSE, points |-> DecodePoints(polyline, 0, 0, 0, <<>>).points]

\* spots.py:18-60
decode_polyline(polyline) ==
    LET body == DecodePoints(polyline, 0, 0, 0, <<>>)
    IN  [raised |-> FALSE,
         points |-> IF body.raised THEN <<>> ELSE body.points]

\* the standard encoding of one signed value: zig-zag, then groups of five
\* bits from the low end, 0x20 set on all but the last, each plus 63
RECURSIVE EncodeGroups(_)
EncodeGroups(zz) ==
    IF zz >= 32 THEN <<32 + (zz % 32) + 63>> \o EncodeGroups(zz \div 32)
    ELSE <<zz + 63>>

EncodeValue(v) == EncodeGroups(IF v < 0 THEN -(2 * v) - 1 ELSE 2 * v)

\* the standard encoding of a list of <<lat, lng>> in units of 1e-5 degree,
\* each point as the difference from the one before, the first from <<0, 0>>
RECURSIVE EncodePolyline(_, _)
EncodePolyline(previous, points) ==
    IF points = <<>> THEN <<>>
    ELSE EncodeValue(Head(points)[1] - previous[1])
             \o EncodeValue(Head(points)[2] - previous[2])
             \o EncodePolyline(Head(points), Tail(points))

\* '>' (below 63), '?', '@' (end a value), '_', '~' (continue a value)
PolylineChars == {62, 63, 64, 95, 126}

\* the encoding of (38.5, -120.2), (40.7, -120.95), (43.252, -126.453)
ReferencePolyline ==
    <<95, 112, 126, 105, 70, 126, 112, 115, 124, 85, 95, 117, 108, 76, 110,
      110, 113, 67, 95, 109, 113, 78, 118, 120, 113, 96, 64>>

EncodedCoordinates == {-17, 0, 1, 16}

EncodedPointLists ==
    UNION {[1 .. n -> EncodedCoordinates \X EncodedCoordinates] :
              n \in 0 .. MaxEncodedPoints}

EncodedPolylines ==
    {EncodePolyline(<<0, 0>>, points) : points \in EncodedPointLists}

Polylines ==
    UNION {[1 .. n -> PolylineChars] : n \in 0 .. MaxPolylineLen}
        \cup {ReferencePolyline}
        \cup EncodedPolylines

CallDecodePolyline ==
    /\ pc = "decode"
    /\ outcome' = decode_polyline(call.polyline)
    /\ pc' = "decoded"
    /\ UNCHANGED <<request, db, priority_contents, other_contents,
                   priority_pos, other_pos, queries, playlist,
                   current_duration, remaining_duration, response, score_in,
                   score_out, random_inst, call,
                   along_vars, follow_vars>>

(***************************************************************************)
(* calculate_distance_to_route, spots.py:62-102, on points of one meridian *)
(* with latitudes in whole degrees.  There dlmb = 0 and haversine_km       *)
(* (geo.py:7-15) is EARTH_RADIUS_KM * radians(|lat2 - lat1|): a distance   *)
(* is held as its arc in degrees, one degree of arc being MetresPerDegree  *)
(* metres.  The quotient of spots.py:87 divides degrees squared by metres  *)
(* squared, so numbers x + y / MetresPerDegree^2 with rational x and y     *)
(* arise; [std |-> x, eps |-> y] is such a number.  For the small          *)
(* rationals explored two of them compare by x first and by y on equal x.  *)
(***************************************************************************)
\* geo.py:5, 15 with spots.py:75: 6371.0088 * pi / 180 * 1000, rounded
MetresPerDegree == 111195

RatAdd(a, b) == Rat(a.num * b.den + b.num * a.den, a.den * b.den)

\* a / b for b # 0
RatDiv(a, b) ==
    IF b.num < 0 THEN Rat(-(a.num * b.den), -(a.den * b.num))
    ELSE Rat(a.num * b.den, a.den * b.num)

WithEps(x, y) == [std |-> x, eps |-> y]

\* a latitude or longitude in whole degrees
Degrees(n) == WithEps(Rat(n, 1), Rat(0, 1))

EpsAdd(u, v) == WithEps(RatAdd(u.std, v.std), RatAdd(u.eps, v.eps))

EpsSub(u, v) == WithEps(RatSub(u.std, v.std), RatSub(u.eps, v.eps))

\* u * v, exact when one factor has no eps part
EpsMul(u, v) ==
    WithEps(RatMul(u.std, v.std),
            RatAdd(RatMul(u.std, v.eps), RatMul(u.eps, v.std)))

EpsIsZero(u) == u.std.num = 0 /\ u.eps.num = 0

EpsIsNegative(u) == u.std.num < 0 \/ (u.std.num = 0 /\ u.eps.num < 0)

EpsLt(u, v) == EpsIsNegative(EpsSub(u, v))

EpsAbs(u) == IF EpsIsNegative(u) THEN EpsSub(Degrees(0), u) ELSE u

\* mutant: the sign of lat2 - lat1 kept (line 13 without the squares)
haversine_km_signed(lat1, lon1, lat2, lon2) == EpsSub(lat2, lat1)

\* geo.py:7-15 for lon1 = lon2, as an arc in degrees
haversine_km(lat1, lon1, lat2, lon2) == EpsAbs(EpsSub(lat2, lat1))

\* float('inf'), and a distance of the given arc
Infinity == [inf |-> TRUE, arc |-> Degrees(0)]

Metres(arc) == [inf |-> FALSE, arc |-> arc]

\* Python's min(a, b): b only when b < a
MinDistance(a, b) ==
    IF b.inf THEN a
    ELSE IF a.inf THEN b
    ELSE IF EpsLt(b.arc, a.arc) THEN b ELSE a

\* spots.py:87: degrees squared over metres squared
DotProduct(spot_lat, spot_lng, lat1, lng1, lat2, lng2, segment_length) ==
    LET numerator == EpsAdd(EpsMul(EpsSub(spot_lat, lat1), EpsSub(lat2, lat1)),
                            EpsMul(EpsSub(spot_lng, lng1), EpsSub(lng2, lng1)))
        arc_squared == EpsMul(segment_length, segment_length)
    IN  WithEps(Rat(0, 1), RatDiv(numerator.std, arc_squared.std))

\* spots.py:89
DotAtMostZero(dot_product) == dot_product.eps.num <= 0

\* spots.py:92: y / MetresPerDegree^2 >= 1
DotAtLeastOne(dot_product) ==
    (dot_product.eps.num \div dot_product.eps.den) \div MetresPerDegree
        >= MetresPerDegree

\* spots.py:71-100: the distance one segment contributes
SegmentDistance(spot_lat, spot_lng, p1, p2) ==
    LET lat1 == p1[1]
        lng1 == p1[2]
        lat2 == p2[1]
        lng2 == p2[2]
        dist1 == haversine_km(spot_lat, spot_lng, lat1, lng1)
        dist2 == haversine_km(spot_lat, spot_lng, lat2, lng2)
        segment_length == haversine_km(lat1, lng1, lat2, lng2)
    IN  IF EpsIsZero(segment_length) THEN Metres(dist1)
        ELSE LET dot_product == DotProduct(spot_lat, spot_lng, lat1, lng1,
                                           lat2, lng2, segment_length)
             IN  IF DotAtMostZero(dot_product) THEN Metres(dist1)
                 ELSE IF DotAtLeastOne(dot_product) THEN Metres(dist2)
                 ELSE LET projection_lat ==
                              EpsAdd(lat1, EpsMul(dot_product, EpsSub(lat2, lat1)))
                          projection_lng ==
                              EpsAdd(lng1, EpsMul(dot_product, EpsSub(lng2, lng1)))
                      IN  Metres(haversine_km(spot_lat, spot_lng,
                                              projection_lat, projection_lng))

\* spots.py:70-100: the loop from segment i on
RECURSIVE MinOverSegments(_, _, _, _, _)
MinOverSegments(spot_lat, spot_lng, route_points, i, min_distance) ==
    IF i >= Len(route_points) THEN min_distance
    ELSE MinOverSegments(spot_lat, spot_lng, route_points, i + 1,
             MinDistance(min_distance,
                         SegmentDistance(spot_lat, spot_lng, route_points[i],
                                         route_points[i + 1])))

\* mutant: an empty route is answered like a route of coinciding points
calculate_distance_to_route_without_empty_test(spot_lat, spot_lng, route_points) ==
    IF route_points = <<>> THEN Metres(Degrees(0))
    ELSE MinOverSegments(spot_lat, spot_lng, route_points, 1, Infinity)

\* spots.py:62-102
calculate_distance_to_route(spot_lat, spot_lng, route_points) ==
    IF route_points = <<>> THEN Infinity
    ELSE MinOverSegments(spot_lat, spot_lng, route_points, 1, Infinity)

\* the meridian the explored points lie on
Meridian == Degrees(0)

Latitudes == {Degrees(n) : n \in -MaxLatitude .. MaxLatitude}

Routes ==
    UNION {[1 .. n -> Latitudes \X {Meridian}] : n \in 0 .. MaxRouteLen}

CallDistanceToRoute ==
    /\ pc = "distance"
    /\ outcome' = calculate_distance_to_route(call.spot_lat, call.spot_lng,
                                              call.route_points)
    /\ pc' = "distance_done"
    /\ UNCHANGED <<request, db, priority_contents, other_contents,
                   priority_pos, other_pos, queries, playlist,
                   current_duration, remaining_duration, response, score_in,
                   score_out, random_inst, call,
                   along_vars, follow_vars>>

\* latitudes of the points haversine_km is called on directly
HaversineLatitudes ==
    {Degrees(n) : n \in -MaxHaversineLatitude .. MaxHaversineLatitude}

CallHaversine ==
    /\ pc = "haversine"
    /\ outcome' = Metres(haversine_km(call.lat1, call.lon1, call.lat2, call.lon2))
    /\ pc' = "haversine_done"
    /\ UNCHANGED <<request, db, priority_contents, other_contents,
                   priority_pos, other_pos, queries, playlist,
                   current_duration, remaining_duration, response, score_in,
                   score_out, random_inst, call,
                   along_vars, follow_vars>>

(***************************************************************************)
(* get_spots_along_route (spots.py 174-233).  The spots lie on the         *)
(* meridian at whole degrees, and so do the points of the encoded routes.  *)
(***************************************************************************)
\* a row of the spots table: lat and lng are DECIMAL degrees
Spot(id, lat) == [id |-> id, lat |-> lat, lng |-> 0]

RECURSIVE Gcd(_, _)
Gcd(a, b) == IF b = 0 THEN a ELSE Gcd(b, a % b)

\* the float a quotient is: one number, here the fraction in lowest terms
Float(r) ==
    LET g == Gcd(IF r.num < 0 THEN -r.num ELSE r.num, r.den)
    IN  WithEps(Rat(r.num \div g, r.den \div g), Rat(0, 1))

\* spots.py:189: the decoded points as calculate_distance_to_route reads them
RoutePoints(points) ==
    [i \in 1 .. Len(points) |-> <<Float(points[i][1]), Float(points[i][2])>>]

\* mutant: the test of line 211 passes every finite distance
WithinBufferOfAnyLength(min_distance, buffer_m) == ~min_distance.inf

\* spots.py:211: min_distance <= buffer_m.  A degree is longer than
\* MetresPerDegree metres by less than one metre, and the eps part is far
\* smaller than that excess
WithinBuffer(min_distance, buffer_m) ==
    /\ ~min_distance.inf
    /\ IF min_distance.arc.std.num = 0
       THEN IF min_distance.arc.eps.num = 0 THEN 0 <= buffer_m
            ELSE 1 <= buffer_m
       ELSE MetresPerDegree * min_distance.arc.std.num
                < buffer_m * min_distance.arc.std.den

\* spots.py:222: int(min_distance)
DistanceM(min_distance) ==
    (MetresPerDegree * min_distance.arc.std.num) \div min_distance.arc.std.den

\* spots.py:212-223, the fields that tell the rows apart
AlongItem(s, min_distance) ==
    [id |-> s.id, lat |-> s.lat, lng |-> s.lng,
     distance_m |-> DistanceM(min_distance)]

\* mutant: list.sort replaced by nothing
SortByDistanceMNot(list) == list

\* spots.py:228: list.sort is stable
RECURSIVE SortByDistanceM(_)
SortByDistanceM(list) ==
    IF list = <<>> THEN <<>>
    ELSE LET least == CHOOSE i \in 1 .. Len(list) :
                          /\ \A j \in 1 .. Len(list) :
                                 list[i].distance_m <= list[j].distance_m
                          /\ \A j \in 1 .. i - 1 :
                                 list[j].distance_m # list[i].distance_m
         IN  <<list[least]>> \o SortByDistanceM(RemoveAt(list, least))

\* mutant: the slice of line 229 left out
FirstItemsUncut(list, n) == list

\* items[:n] and the rows a LIMIT n query yields
FirstItems(list, n) == SubSeq(list, 1, IF Len(list) < n THEN Len(list) ELSE n)

NoAlongResponse == [status_code |-> 0, detail |-> "", items |-> <<>>]

\* the JSON list of a 200 answer
AlongOk(list) == [status_code |-> 200, detail |-> "", items |-> list]

AlongError(status_code, detail) ==
    [status_code |-> status_code, detail |-> detail, items |-> <<>>]

\* spots.py:191-192 inside the try of line 184: HTTPException is an
\* Exception, so line 231 catches the 422 and line 233 raises a 500 whose
\* detail quotes str(e)
AlongInvalidPolyline ==
    /\ pc = "along"
    /\ decode_polyline(along_request.polyline).points = <<>>
    /\ along_route_points' = <<>>
    /\ along_response' =
           AlongError(500, "Failed to get spots along route: 422: Invalid polyline")
    /\ pc' = "along_done"
    /\ UNCHANGED <<request, db, priority_contents, other_contents,
                   priority_pos, other_pos, queries, playlist,
                   current_duration, remaining_duration, response, score_in,
                   score_out, random_inst, call, outcome, spots,
                   along_request, candidates, scanned, along_items,
                   follow_vars>>

\* spots.py:189-204
AlongPrefetch ==
    /\ pc = "along"
    /\ decode_polyline(along_request.polyline).points # <<>>
    /\ along_route_points' =
           RoutePoints(decode_polyline(along_request.polyline).points)
    /\ candidates' = FirstItems(spots, along_request.limit * 2)
    /\ along_items' = <<>>
    /\ scanned' = 0
    /\ pc' = "along_scan"
    /\ UNCHANGED <<request, db, priority_contents, other_contents,
                   priority_pos, other_pos, queries, playlist,
                   current_duration, remaining_duration, response, score_in,
                   score_out, random_inst, call, outcome, spots,
                   along_request, along_response, follow_vars>>

\* spots.py:206-223: one pass of the loop
AlongScan ==
    /\ pc = "along_scan"
    /\ scanned < Len(candidates)
    /\ LET s == candidates[scanned + 1]
           min_distance == calculate_distance_to_route(Degrees(s.lat),
                               Degrees(s.lng), along_route_points)
       IN  along_items' =
               IF WithinBuffer(min_distance, along_request.buffer_m)
               THEN Append(along_items, AlongItem(s, min_distance))
               ELSE along_items
    /\ scanned' = scanned + 1
    /\ UNCHANGED <<pc, request, db, priority_contents, other_contents,
                   priority_pos, other_pos, queries, playlist,
                   current_duration, remaining_duration, response, score_in,
                   score_out, random_inst, call, outcome, spots,
                   along_request, along_route_points, candidates,
                   along_response, follow_vars>>

\* spots.py:228-229
AlongReturn ==
    /\ pc = "along_scan"
    /\ scanned = Len(candidates)
    /\ along_response' =
           AlongOk(FirstItems(SortByDistanceM(along_items), along_request.limit))
    /\ pc' = "along_done"
    /\ UNCHANGED <<request, db, priority_contents, other_contents,
                   priority_pos, other_pos, queries, playlist,
                   current_duration, remaining_duration, response, score_in,
                   score_out, random_inst, call, outcome, spots,
                   along_request, along_route_points, candidates, scanned,
                   along_items, follow_vars>>

\* spot tables of up to MaxSpotRows rows, ids in table order
SpotTables ==
    UNION {{[i \in 1 .. n |-> Spot(i, lats[i])] :
               lats \in [1 .. n -> 0 .. MaxSpotLatitude]} : n \in 0 .. MaxSpotRows}

\* encoded routes of up to two points at 0 or 1 degree on the meridian, and
\* a string that stops inside a value ('_')
AlongPolylines ==
    {EncodePolyline(<<0, 0>>, points) :
        points \in UNION {[1 .. n -> {0, 100000} \X {0}] : n \in 0 .. 2}}
        \cup {<<95>>}

\* no corridor, the default one, and one just over a degree wide
AlongBuffers == {0, 1000, MetresPerDegree + 1}

AlongRequests ==
    [polyline : AlongPolylines, buffer_m : AlongBuffers, limit : 1 .. MaxLimit]

(***************************************************************************)
(* follow_oshi and unfollow_oshi (user_oshis.py 11-79).  Every request has *)
(* its own database session; the table holds the committed rows, a        *)
(* session's flushed statement stays pending until its COMMIT.             *)
(***************************************************************************)
\* a row of user_oshi; registered_at is 0 for the rows present before the
\* requests and 1 for the rows they insert
UserOshi(user_id, oshi_id, registered_at) ==
    [user_id |-> user_id, oshi_id |-> oshi_id, registered_at |-> registered_at]

\* the committed rows of the pair, by position
RowsOfPair(table, user_id, oshi_id) ==
    {k \in 1 .. Len(table) :
        table[k].user_id = user_id /\ table[k].oshi_id = oshi_id}

\* mutant: a table without its primary key
DuplicateEntryNever(table, user_id, oshi_id) == FALSE

\* models.py:131: pk_user_oshi refuses a second row of the pair
DuplicateEntry(table, user_id, oshi_id) ==
    RowsOfPair(table, user_id, oshi_id) # {}

\* the index entry of the pair is locked by another session's pending
\* INSERT or DELETE; a write on it waits for that session's COMMIT
LockedByOther(i) ==
    \E j \in DOMAIN sessions :
        /\ j # i
        /\ sessions[j].pending # "none"
        /\ sessions[j].user_id = sessions[i].user_id
        /\ sessions[j].oshi_id = sessions[i].oshi_id

NoFollowResponse == [status_code |-> 0, detail |-> ""]

\* user_oshis.py:38, 71
FollowOk == [status_code |-> 200, detail |-> ""]

\* user_oshis.py:40-46, 73-79: whatever the try block raises, an
\* HTTPException included, is answered with a 500 that quotes str(e)
FollowFailed(op, e) ==
    [status_code |-> 500,
     detail |-> (IF op = "follow" THEN "Failed to follow oshi: "
                 ELSE "Failed to unfollow oshi: ") \o e]

FollowSession(op, oshi_id) ==
    [op |-> op, user_id |-> 1, oshi_id |-> oshi_id, pc |-> "start",
     existing_follow |-> FALSE, pending |-> "none",
     response |-> NoFollowResponse]

\* the frame of the follow and unfollow steps
FollowFrame ==
    UNCHANGED <<pc, request, db, priority_contents, other_contents,
                priority_pos, other_pos, queries, playlist,
                current_duration, remaining_duration, response, score_in,
                score_out, random_inst, call, outcome, along_vars>>

\* user_oshis.py:20-25, 57-62: the SELECT reads the committed rows
SelectExisting(i) ==
    /\ sessions[i].pc = "start"
    /\ sessions' = [sessions EXCEPT
           ![i].existing_follow =
               RowsOfPair(user_oshi, sessions[i].user_id,
                          sessions[i].oshi_id) # {},
           ![i].pc = "checked"]
    /\ UNCHANGED user_oshi
    /\ FollowFrame

\* user_oshis.py:27-28 caught at 40-46
RaiseAlreadyFollowing(i) ==
    /\ sessions[i].pc = "checked"
    /\ sessions[i].op = "follow"
    /\ sessions[i].existing_follow
    /\ sessions' = [sessions EXCEPT
           ![i].response =
               FollowFailed("follow", "400: Already following this oshi"),
           ![i].pc = "done"]
    /\ UNCHANGED user_oshi
    /\ FollowFrame

\* user_oshis.py:64-65 caught at 73-79
RaiseNotFollowing(i) ==
    /\ sessions[i].pc = "checked"
    /\ sessions[i].op = "unfollow"
    /\ ~sessions[i].existing_follow
    /\ sessions' = [sessions EXCEPT
           ![i].response =
               FollowFailed("unfollow", "404: Not following this oshi"),
           ![i].pc = "done"]
    /\ UNCHANGED user_oshi
    /\ FollowFrame

\* user_oshis.py:31-36: db.commit() flushes the INSERT
FlushInsert(i) ==
    /\ sessions[i].pc = "checked"
    /\ sessions[i].op = "follow"
    /\ ~sessions[i].existing_follow
    /\ ~LockedByOther(i)
    /\ ~DuplicateEntry(user_oshi, sessions[i].user_id, sessions[i].oshi_id)
    /\ sessions' = [sessions EXCEPT ![i].pending = "insert",
                                    ![i].pc = "flushed"]
    /\ UNCHANGED user_oshi
    /\ FollowFrame

\* user_oshis.py:36 with 40-46: the INSERT meets a committed row of the
\* pair and raises IntegrityError; db.rollback() leaves nothing pending
InsertRefused(i) ==
    /\ sessions[i].pc = "checked"
    /\ sessions[i].op = "follow"
    /\ ~sessions[i].existing_follow
    /\ ~LockedByOther(i)
    /\ DuplicateEntry(user_oshi, sessions[i].user_id, sessions[i].oshi_id)
    /\ sessions' = [sessions EXCEPT
           ![i].response = FollowFailed("follow", "IntegrityError"),
           ![i].pc = "done"]
    /\ UNCHANGED user_oshi
    /\ FollowFrame

\* user_oshis.py:68-69: db.commit() flushes the DELETE (of no row when
\* another request has removed it since the SELECT)
FlushDelete(i) ==
    /\ sessions[i].pc = "checked"
    /\ sessions[i].op = "unfollow"
    /\ sessions[i].existing_follow
    /\ ~LockedByOther(i)
    /\ sessions' = [sessions EXCEPT ![i].pending = "delete",
                                    ![i].pc = "flushed"]
    /\ UNCHANGED user_oshi
    /\ FollowFrame

\* the table after the session's pending statement is committed
Committed(table, s) ==
    IF s.pending = "insert"
    THEN Append(table, UserOshi(s.user_id, s.oshi_id, 1))
    ELSE LET kept == {k \in 1 .. Len(table) :
                         k \notin RowsOfPair(table, s.user_id, s.oshi_id)}
             order == SortedSeq(kept)
         IN  [n \in 1 .. Len(order) |-> table[order[n]]]

\* user_oshis.py:36-38, 69-71: the COMMIT and the answer
CommitFollow(i) ==
    /\ sessions[i].pc = "flushed"
    /\ user_oshi' = Committed(user_oshi, sessions[i])
    /\ sessions' = [sessions EXCEPT ![i].pending = "none",
                                    ![i].response = FollowOk,
                                    ![i].pc = "done"]
    /\ FollowFrame

\* the tables the requests may find: any set of the user's pairs
UserOshiTables ==
    {<<>>, <<UserOshi(1, 1, 0)>>, <<UserOshi(1, 2, 0)>>,
     <<UserOshi(1, 1, 0), UserOshi(1, 2, 0)>>}

\* up to MaxSessions concurrent requests of one user
FollowSessions ==
    UNION {[1 .. n -> {FollowSession(op, o) :
                          op \in {"follow", "unfollow"}, o \in Oshis}] :
              n \in 1 .. MaxSessions}

(***************************************************************************)
(* Requests and stores explored.                                           *)
(***************************************************************************)
Requests ==
    [target_duration_min : 0 .. MaxTarget,
     tolerance_min : -1 .. MaxTol,
     max_items : (0 .. MaxItemsReq) \cup {MaxItemsLimit, MaxItemsLimit + 1},
     content_types : {{"youtube"}},
     preferred_langs : {{"ja"}}]

\* duration columns of the first n content rows, in non-decreasing order
\* (content ids are interchangeable, so each multiset is listed once)
DurationColumns ==
    UNION {{col \in [1 .. n -> 1 .. MaxDuration] :
               \A i \in 1 .. n - 1 : col[i] <= col[i + 1]} : n \in 0 .. MaxContents}

\* how the content rows hang on oshi 1 ("direct": contents.oshi_id, "spot":
\* through spot 1, which belongs to both oshis, "both": both ways), whom the
\* user follows, and whether the user's row exists
Linkages ==
    {[mode |-> "direct", follows |-> {1}, users |-> TRUE],
     [mode |-> "direct", follows |-> {2}, users |-> TRUE],
     [mode |-> "spot", follows |-> {2}, users |-> TRUE],
     [mode |-> "both", follows |-> {1, 2}, users |-> TRUE],
     [mode |-> "direct", follows |-> {}, users |-> TRUE],
     [mode |-> "direct", follows |-> {1}, users |-> FALSE]}

\* the store with the given duration column; row 1 has no language, and
\* four further rows fail the duration, media-type and language filters
Database(col, link) ==
    LET n == Len(col)
        oshi_id == IF link.mode = "spot" THEN NoValue ELSE 1
        rows == {Content(i, oshi_id, col[i], "youtube",
                         IF i = 1 THEN NoLang ELSE "ja") : i \in 1 .. n}
                  \cup {Content(n + 1, oshi_id, NoValue, "youtube", "ja"),
                        Content(n + 2, oshi_id, 0, "youtube", "ja"),
                        Content(n + 3, oshi_id, 1, "article", "ja"),
                        Content(n + 4, oshi_id, 1, "youtube", "en")}
    IN  [users |-> link.users,
         user_oshi |-> link.follows,
         oshis |-> OshiTable,
         contents |-> rows,
         spot_content |-> IF link.mode = "direct" THEN {}
                          ELSE {<<1, c.id>> : c \in rows},
         spot_oshi |-> IF link.mode = "direct" THEN {}
                       ELSE {<<1, o>> : o \in Oshis}]

Databases == {Database(col, link) : col \in DurationColumns, link \in Linkages}

\* requests with targets whose 5% and 15% marks are whole minutes (20: 1 and
\* 3, 40: 2 and 6, 60: 3 and 9)
LongRequests ==
    [target_duration_min : {20, 40, 60},
     tolerance_min : {5},
     max_items : {5},
     content_types : {{"youtube"}},
     preferred_langs : {{"ja"}}]

\* the pool of three items of 10, 50 and 12 minutes
ScenarioDatabases == {Database(<<10, 50, 12>>, link) : link \in Linkages}

\* no get_spots_along_route request
NoAlongRequest ==
    /\ spots = <<>>
    /\ along_request = CHOOSE r \in AlongRequests : TRUE
    /\ along_route_points = <<>>
    /\ candidates = <<>>
    /\ scanned = 0
    /\ along_items = <<>>
    /\ along_response = NoAlongResponse

\* no follow or unfollow request
NoFollowRequest ==
    /\ user_oshi = <<>>
    /\ sessions = <<>>

Init ==
    /\ pc = "start"
    /\ request \in Requests \cup LongRequests
    /\ db \in Databases \cup ScenarioDatabases
    /\ priority_contents = <<>>
    /\ other_contents = <<>>
    /\ priority_pos = 0
    /\ other_pos = 0
    /\ queries = {}
    /\ playlist = <<>>
    /\ current_duration = 0
    /\ remaining_duration = 0
    /\ response = NoResponse
    /\ score_in = NoCall
    /\ score_out = Returned(Rat(0, 1))
    /\ random_inst = FreshGenerator
    /\ call = NoArguments
    /\ outcome = NoResult
    /\ NoAlongRequest
    /\ NoFollowRequest

Next ==
    \/ RejectInvalid
    \/ UserNotFound
    \/ NoFollowedOshis
    \/ NoFollowedContents
    \/ StartPriorityPass
    \/ PriorityStep
    \/ StartOtherPass
    \/ SkipOtherPass
    \/ OtherStep
    \/ EndOtherPass
    \/ Summarize

Spec == Init /\ [][Next]_vars

\* no playlist request is under way
NoPlaylistRequest ==
    /\ request = CHOOSE r \in Requests : TRUE
    /\ db = CHOOSE d \in Databases : TRUE
    /\ priority_contents = <<>>
    /\ other_contents = <<>>
    /\ priority_pos = 0
    /\ other_pos = 0
    /\ queries = {}
    /\ playlist = <<>>
    /\ current_duration = 0
    /\ remaining_duration = 0
    /\ response = NoResponse
    /\ random_inst = FreshGenerator

InitScore ==
    /\ pc = "score"
    /\ score_in \in [actual_min : ScoreActuals, target_min : ScoreTargets,
                     tolerance_min : ScoreTolerances]
    /\ score_out = Returned(Rat(0, 1))
    /\ NoPlaylistRequest
    /\ call = NoArguments
    /\ outcome = NoResult
    /\ NoAlongRequest
    /\ NoFollowRequest

InitRelated ==
    /\ pc = "related"
    /\ call \in {[fn |-> "get_related_oshis_for_content",
                   content |-> CHOOSE c \in d.contents : TRUE,
                   oshi_ids |-> FollowedOshiIds(d),
                   db |-> d] : d \in RelatedStores}
    /\ outcome = NoResult
    /\ NoPlaylistRequest
    /\ score_in = NoCall
    /\ score_out = Returned(Rat(0, 1))
    /\ NoAlongRequest
    /\ NoFollowRequest

NextRelated == CallRelatedOshis

SpecRelated == InitRelated /\ [][NextRelated]_vars

InitDecode ==
    /\ pc = "decode"
    /\ call \in {[fn |-> "decode_polyline", polyline |-> s] : s \in Polylines}
    /\ outcome = NoResult
    /\ NoPlaylistRequest
    /\ score_in = NoCall
    /\ score_out = Returned(Rat(0, 1))
    /\ NoAlongRequest
    /\ NoFollowRequest

NextDecode == CallDecodePolyline

SpecDecode == InitDecode /\ [][NextDecode]_vars

InitRoute ==
    /\ pc = "distance"
    /\ call \in [fn : {"calculate_distance_to_route"},
                  spot_lat : Latitudes,
                  spot_lng : {Meridian},
                  route_points : Routes]
    /\ outcome = NoResult
    /\ NoPlaylistRequest
    /\ score_in = NoCall
    /\ score_out = Returned(Rat(0, 1))
    /\ NoAlongRequest
    /\ NoFollowRequest

NextRoute == CallDistanceToRoute

SpecRoute == InitRoute /\ [][NextRoute]_vars

InitAlong ==
    /\ pc = "along"
    /\ spots \in SpotTables
    /\ along_request \in AlongRequests
    /\ along_route_points = <<>>
    /\ candidates = <<>>
    /\ scanned = 0
    /\ along_items = <<>>
    /\ along_response = NoAlongResponse
    /\ NoPlaylistRequest
    /\ NoFollowRequest
    /\ score_in = NoCall
    /\ score_out = Returned(Rat(0, 1))
    /\ call = NoArguments
    /\ outcome = NoResult

NextAlong ==
    \/ AlongInvalidPolyline
    \/ AlongPrefetch
    \/ AlongScan
    \/ AlongReturn

SpecAlong == InitAlong /\ [][NextAlong]_vars

InitHaversine ==
    /\ pc = "haversine"
    /\ call \in [fn : {"haversine_km"},
                  lat1 : HaversineLatitudes,
                  lon1 : {Meridian},
                  lat2 : HaversineLatitudes,
                  lon2 : {Meridian}]
    /\ outcome = NoResult
    /\ NoPlaylistRequest
    /\ NoAlongRequest
    /\ NoFollowRequest
    /\ score_in = NoCall
    /\ score_out = Returned(Rat(0, 1))

NextHaversine == CallHaversine

SpecHaversine == InitHaversine /\ [][NextHaversine]_vars

InitFollow ==
    /\ pc = "follow"
    /\ user_oshi \in UserOshiTables
    /\ sessions \in FollowSessions
    /\ NoPlaylistRequest
    /\ NoAlongRequest
    /\ score_in = NoCall
    /\ score_out = Returned(Rat(0, 1))
    /\ call = NoArguments
    /\ outcome = NoResult

NextFollow ==
    \/ \E i \in DOMAIN sessions : SelectExisting(i)
    \/ \E i \in DOMAIN sessions : RaiseAlreadyFollowing(i)
    \/ \E i \in DOMAIN sessions : RaiseNotFollowing(i)
    \/ \E i \in DOMAIN sessions : FlushInsert(i)
    \/ \E i \in DOMAIN sessions : InsertRefused(i)
    \/ \E i \in DOMAIN sessions : FlushDelete(i)
    \/ \E i \in DOMAIN sessions : CommitFollow(i)

SpecFollow == InitFollow /\ [][NextFollow]_vars

NextScore == CallScore

SpecScore == InitScore /\ [][NextScore]_vars

(***************************************************************************)
(* Vocabulary of the properties.                                           *)
(***************************************************************************)
RECURSIVE SumDurations(_)
SumDurations(entries) ==
    IF entries = <<>> THEN 0
    ELSE Head(entries).duration_min + SumDurations(Tail(entries))

\* the deduplicated candidate pool of the request
Pool == Range(UniqueContents(FollowedContents(db, request)))

PlaylistIds(entries) == {entries[i].content_id : i \in 1 .. Len(entries)}

\* pool items the two loops have passed so far
Scanned ==
    {priority_contents[i] : i \in 1 .. priority_pos}
        \cup {other_contents[i] : i \in 1 .. other_pos}

Composing == pc \in {"priority", "other", "summary"}

Returned200 == pc = "done" /\ response.status = 200

\* C1: the playlist never holds more than max_items entries, while it is
\* built by the two passes and when it is returned.
C1_AtMostMaxItems ==
    /\ Composing => Len(playlist) <= request.max_items
    /\ Returned200 => Len(response.playlist) <= request.max_items

\* C1 witness: a returned playlist filled to max_items by an entry of each
\* pass while a further pool item would still have fitted.
C1_Witness ==
    /\ Returned200
    /\ Len(response.playlist) = request.max_items
    /\ priority_pos > 0
    /\ other_pos > 0
    /\ \E i, j \in 1 .. Len(response.playlist) :
          /\ InPriorityBand(response.playlist[i].duration_min,
                            request.target_duration_min)
          /\ InOther(response.playlist[j].duration_min,
                     request.target_duration_min)
    /\ \E c \in Pool :
          /\ c.id \notin PlaylistIds(response.playlist)
          /\ c.duration_min <= remaining_duration + request.tolerance_min

\* C2: the summary's total is the sum of the durations of exactly the
\* entries of the returned playlist.
C2_TotalIsSumOfPlaylist ==
    /\ Composing => current_duration = SumDurations(playlist)
    /\ Returned200 =>
          response.summary.total_duration_min = SumDurations(response.playlist)

\* C2 witness: a returned playlist of two or more entries, built while some
\* scanned pool item was skipped.
C2_Witness ==
    /\ Returned200
    /\ Len(response.playlist) >= 2
    /\ \E c \in Scanned : c.id \notin PlaylistIds(response.playlist)

\* C3: overage_min = max(0, total_duration_min - target_duration_min): never
\* negative, the excess when the total exceeds the target, 0 otherwise.
C3_OverageIsClampedExcess ==
    Returned200 =>
        LET sm == response.summary
            excess == sm.total_duration_min - sm.target_duration_min
        IN  /\ sm.target_duration_min = request.target_duration_min
            /\ sm.overage_min >= 0
            /\ excess > 0 => sm.overage_min = excess
            /\ excess <= 0 => sm.overage_min = 0

\* C3 witness: a returned non-empty playlist that stays below the target.
C3_Witness ==
    /\ Returned200
    /\ response.playlist # <<>>
    /\ response.summary.total_duration_min < request.target_duration_min
    /\ response.summary.overage_min = 0

\* a second case of C3: a returned playlist that overshoots the target
C3_OvershootReached ==
    /\ Returned200
    /\ response.summary.overage_min > 0



\* the preconditions of compose as the specification states them
ClaimedInvalidArgument(req) ==
    \/ req.target_duration_min <= 0
    \/ req.max_items \notin 1 .. 100
    \/ req.tolerance_min < 0

\* C7: a request with target <= 0, max_items outside [1,100] or tolerance < 0
\* is answered with the invalid-argument failure (HTTP 400) before any table
\* is queried, and no playlist is built or returned for it.
C7_InvalidRequestRejectedFirst ==
    ClaimedInvalidArgument(request) =>
        /\ pc \in {"start", "done"}
        /\ queries = {}
        /\ playlist = <<>>
        /\ priority_contents = <<>> /\ other_contents = <<>>
        /\ pc = "done" => response = HTTPException(400)

\* C7 witness: a request for 101 items, otherwise valid and with a user and
\* a non-empty pool behind it, has been rejected.
C7_Witness ==
    /\ pc = "done"
    /\ response.status = 400
    /\ request.max_items > 100
    /\ request.target_duration_min > 0
    /\ request.tolerance_min >= 0
    /\ db.users
    /\ Pool # {}

\* C8: when the user follows nothing or the filtered pool is empty, the
\* caller receives the typed NoCandidates failure (HTTP 404), not a generic
\* internal error.
C8_NoCandidatesReachesCaller ==
    (/\ pc = "done"
     /\ ~ClaimedInvalidArgument(request)
     /\ db.users
     /\ Pool = {}) => response.status = 404

\* C9: an item is appended only at its turn and only if its duration is at
\* most (target - sum of the durations appended so far) + tolerance; an item
\* that fails this at its turn is not appended, and no item already passed
\* changes its membership in the playlist later.
C9_AppendedItemsFitAtTheirTurn ==
    [][LET allowance == (request.target_duration_min - SumDurations(playlist))
                            + request.tolerance_min
           turn == Scanned' \ Scanned
       IN  /\ Len(playlist') > Len(playlist) =>
                 /\ SubSeq(playlist', 1, Len(playlist)) = playlist
                 /\ Len(playlist') = Len(playlist) + 1
                 /\ \E c \in turn :
                       /\ c.id = playlist'[Len(playlist')].content_id
                       /\ c.duration_min = playlist'[Len(playlist')].duration_min
                 /\ playlist'[Len(playlist')].duration_min <= allowance
           /\ \A c \in turn :
                 c.duration_min > allowance => c.id \notin PlaylistIds(playlist')
           /\ \A c \in Scanned :
                 c.id \in PlaylistIds(playlist') <=> c.id \in PlaylistIds(playlist)
      ]_vars

\* C9 witness: in the second pass an item was skipped at its turn and an
\* item scanned after it was appended.
C9_Witness ==
    /\ pc = "other"
    /\ \E i, j \in 1 .. other_pos :
          /\ i < j
          /\ other_contents[i].id \notin PlaylistIds(playlist)
          /\ other_contents[j].id \in PlaylistIds(playlist)

\* whether a pool item fits the room a returned result leaves
FitsReturned(c) ==
    c.duration_min <=
        (request.target_duration_min - response.summary.total_duration_min)
            + request.tolerance_min

AbsentFromReturned == {c \in Pool : c.id \notin PlaylistIds(response.playlist)}

\* C10 as stated: a returned playlist has exactly max_items entries or no
\* absent pool item fits (target - total) + tolerance.
C10_StopsOnlyWhenFullOrNothingFits ==
    Returned200 =>
        \/ Len(response.playlist) = request.max_items
        \/ \A c \in AbsentFromReturned : ~FitsReturned(c)

\* C10 amended: a returned playlist has exactly max_items entries, or no
\* absent priority-band item fits and either no absent other item fits or
\* the priority-band entries alone brought the total within tolerance of
\* the target (target - total <= tolerance, no other item appended).
C10_StopsWhenFullNothingFitsOrWithinTolerance ==
    Returned200 =>
        \/ Len(response.playlist) = request.max_items
        \/ /\ \A c \in AbsentFromReturned :
                 InPriorityBand(c.duration_min, request.target_duration_min)
                     => ~FitsReturned(c)
           /\ \/ \A c \in AbsentFromReturned :
                    InOther(c.duration_min, request.target_duration_min)
                        => ~FitsReturned(c)
              \/ /\ request.target_duration_min
                        - response.summary.total_duration_min
                            <= request.tolerance_min
                 /\ \A i \in 1 .. Len(response.playlist) :
                       InPriorityBand(response.playlist[i].duration_min,
                                      request.target_duration_min)

\* C10 witness: a returned playlist below max_items that leaves out an other
\* item which fits, the second pass not having been entered.
C10_Witness ==
    /\ Returned200
    /\ Len(response.playlist) < request.max_items
    /\ other_pos = 0
    /\ \E c \in AbsentFromReturned :
          /\ InOther(c.duration_min, request.target_duration_min)
          /\ FitsReturned(c)

(***************************************************************************)
(* Properties of calculate_efficiency_score, checked under SpecScore.      *)
(***************************************************************************)
Scored == pc = "scored"

ScoreCall(actual_min, target_min, tolerance_min) ==
    /\ Scored
    /\ score_in = [actual_min |-> actual_min, target_min |-> target_min,
                   tolerance_min |-> tolerance_min]

\* the piecewise function of the specification, in lowest common terms:
\* 1 up to the target, 1 - overage/(5*tolerance) up to the tolerance,
\* max(0, (4*target - 5*(overage - tolerance)) / (5*target)) beyond it
ReferenceScore(actual_min, target_min, tolerance_min) ==
    LET overage == actual_min - target_min
        beyond == 4 * target_min - 5 * (overage - tolerance_min)
    IN  CASE overage <= 0 -> Rat(1, 1)
          [] overage > 0 /\ overage <= tolerance_min ->
                 Rat(5 * tolerance_min - overage, 5 * tolerance_min)
          [] OTHER -> IF beyond > 0 THEN Rat(beyond, 5 * target_min)
                      ELSE Rat(0, 1)

\* C4: for target > 0 and tolerance > 0 the score is the reference piecewise
\* function: exactly 0.8 at overage = tolerance, score(50,60,5) = 1.0,
\* score(63,60,5) = 0.88 and 0 <= score(70,60,5) < 0.8.
C4_ScoreIsReferencePiecewise ==
    /\ (Scored /\ score_in.target_min > 0 /\ score_in.tolerance_min > 0) =>
          /\ ~score_out.raised
          /\ score_out.den > 0
          /\ RatEq(score_out, ReferenceScore(score_in.actual_min,
                                             score_in.target_min,
                                             score_in.tolerance_min))
          /\ score_in.actual_min - score_in.target_min = score_in.tolerance_min
                => RatEq(score_out, Rat(8, 10))
    /\ ScoreCall(50, 60, 5) => RatEq(score_out, Rat(1, 1))
    /\ ScoreCall(63, 60, 5) => RatEq(score_out, Rat(88, 100))
    /\ ScoreCall(70, 60, 5) =>
          RatLeq(Rat(0, 1), score_out) /\ RatLt(score_out, Rat(8, 10))

\* C4 witness: the call score(70, 60, 5) has returned from the penalty branch.
C4_Witness ==
    /\ ScoreCall(70, 60, 5)
    /\ ~score_out.raised
    /\ RatLt(score_out, Rat(8, 10))

\* C5: for actual >= 0, target > 0 and tolerance >= 0 the call returns a
\* value in the closed interval [0, 1].
C5_ScoreInUnitInterval ==
    (Scored /\ score_in.actual_min >= 0 /\ score_in.target_min > 0
            /\ score_in.tolerance_min >= 0) =>
        /\ ~score_out.raised
        /\ score_out.den > 0
        /\ RatLeq(Rat(0, 1), score_out)
        /\ RatLeq(score_out, Rat(1, 1))

\* C5 witness: a call whose penalty exceeds 0.8, answered with exactly 0.
C5_Witness ==
    /\ Scored
    /\ score_in.actual_min - score_in.target_min - score_in.tolerance_min
          > score_in.target_min
    /\ ~score_out.raised
    /\ score_out.num = 0

\* C6: with tolerance = 0 and actual > target no division by zero happens;
\* the result is the penalty-branch value max(0, 0.8 - overage/target).
C6_ZeroToleranceTakesPenaltyBranch ==
    (Scored /\ score_in.tolerance_min = 0 /\ score_in.target_min > 0
            /\ score_in.actual_min > score_in.target_min) =>
        LET overage == score_in.actual_min - score_in.target_min
            value == RatSub(Rat(8, 10), Rat(overage, score_in.target_min))
        IN  /\ ~score_out.raised
            /\ IF RatLt(Rat(0, 1), value)
               THEN RatEq(score_out, value)
               ELSE RatEq(score_out, Rat(0, 1))

\* C6 witness: a zero-tolerance call over the target that returned a
\* positive penalty-branch value.
C6_Witness ==
    /\ Scored
    /\ score_in.tolerance_min = 0
    /\ score_in.actual_min > score_in.target_min
    /\ ~score_out.raised
    /\ score_out.num > 0


(***************************************************************************)
(* Order and make-up of the playlist.                                      *)
(***************************************************************************)
\* 5% to 15% of the target, both ends included
WithinBand(entry) ==
    /\ 5 * request.target_duration_min <= 100 * entry.duration_min
    /\ 100 * entry.duration_min <= 15 * request.target_duration_min

OnBandEdge(entry) ==
    \/ 5 * request.target_duration_min = 100 * entry.duration_min
    \/ 100 * entry.duration_min = 15 * request.target_duration_min

BandEntriesFirst(entries) ==
    \A i, j \in 1 .. Len(entries) :
        (i < j /\ WithinBand(entries[j])) => WithinBand(entries[i])

\* C11: in the playlist under construction and in every returned playlist
\* the entries within 5%..15% of the target (ends included) precede all
\* entries outside that band, and while the priority pass runs the playlist
\* holds band entries only.
C11_BandEntriesPrecedeOthers ==
    /\ Composing => BandEntriesFirst(playlist)
    /\ Returned200 => BandEntriesFirst(response.playlist)
    /\ pc = "priority" =>
           /\ other_pos = 0
           /\ \A i \in 1 .. Len(playlist) : WithinBand(playlist[i])

\* C11 witness: a returned playlist in which an entry lying exactly on an
\* end of the band is followed by an entry outside the band.
C11_Witness ==
    /\ Returned200
    /\ \E i, j \in 1 .. Len(response.playlist) :
          /\ i < j
          /\ OnBandEdge(response.playlist[i])
          /\ ~WithinBand(response.playlist[j])


NoRepeatedId(entries) ==
    \A i, j \in 1 .. Len(entries) :
        i # j => entries[i].content_id # entries[j].content_id

\* how often the fetch has delivered the content with this id
TimesFetched(id) ==
    Len(SelectSeq(FollowedContents(db, request), LAMBDA c : c.id = id))

\* C12: no content id occurs twice in the playlist under construction or in
\* a returned playlist, however often the fetch has delivered the content
\* (by its oshi_id and again through the spots of each followed oshi).
C12_NoContentTwice ==
    /\ Composing => NoRepeatedId(playlist)
    /\ Returned200 => NoRepeatedId(response.playlist)

\* C12 witness: a returned playlist of two entries, each of a content the
\* fetch has delivered three times (directly and through the spot of both
\* followed oshis).
C12_Witness ==
    /\ Returned200
    /\ Len(response.playlist) >= 2
    /\ \A i \in 1 .. Len(response.playlist) :
           TimesFetched(response.playlist[i].content_id) >= 3


(***************************************************************************)
(* The scenario pool: items 1, 2, 3 of 10, 50 and 12 minutes, target 60,   *)
(* tolerance 5, at most 5 items.                                           *)
(***************************************************************************)
InScenario ==
    /\ request.target_duration_min = 60
    /\ request.tolerance_min = 5
    /\ request.max_items = 5
    /\ {<<c.id, c.duration_min>> : c \in Pool} = {<<1, 10>>, <<2, 50>>, <<3, 12>>}

ScenarioReturned == Returned200 /\ InScenario

ScoreAtLeastEightTenths(summary) ==
    /\ ~summary.efficiency_score.raised
    /\ RatLeq(Rat(8, 10), summary.efficiency_score)

\* C13 as stated: every result of the scenario includes item 2 and at least
\* one of items 1 and 3, totals 55 to 65 minutes and scores at least 0.8.
C13_ScenarioIncludesItemTwo ==
    ScenarioReturned =>
        /\ 2 \in PlaylistIds(response.playlist)
        /\ PlaylistIds(response.playlist) \cap {1, 3} # {}
        /\ response.summary.total_duration_min \in 55 .. 65
        /\ ScoreAtLeastEightTenths(response.summary)

\* C13 amended: every result of the scenario holds two of the three items,
\* at least one of items 1 and 3, and scores at least 0.8; with item 2 it
\* totals 55 to 65 minutes, without item 2 (items 1 and 3 both drawn before
\* item 2) it totals 22 minutes.
C13_ScenarioTwoItemsWithinTolerance ==
    ScenarioReturned =>
        /\ PlaylistIds(response.playlist) \in {{1, 2}, {2, 3}, {1, 3}}
        /\ Len(response.playlist) = 2
        /\ ScoreAtLeastEightTenths(response.summary)
        /\ 2 \in PlaylistIds(response.playlist) =>
               response.summary.total_duration_min \in 55 .. 65
        /\ 2 \notin PlaylistIds(response.playlist) =>
               response.summary.total_duration_min = 22

\* C13 witness: the scenario answered with items 1 and 3 only.
C13_Witness ==
    /\ ScenarioReturned
    /\ PlaylistIds(response.playlist) = {1, 3}
    /\ other_pos = 3


(***************************************************************************)
(* The names of related oshis.                                             *)
(***************************************************************************)
RelatedCalled == pc = "related_done"

NoRepeatedName(names) ==
    \A i, j \in 1 .. Len(names) : i # j => names[i] # names[j]

\* names of the oshi the content row itself points to
DirectNames(c, d) == {o.name : o \in {x \in d.oshis : x.id = c.oshi_id}}

\* names of the followed oshis that own a spot showing the content
TransitiveNames(c, d) ==
    {o.name : o \in {x \in d.oshis :
        /\ x.id \in d.user_oshi
        /\ \E sc \in d.spot_content, so \in d.spot_oshi :
              sc[2] = c.id /\ so[1] = sc[1] /\ so[2] = x.id}}

\* C14: related_oshis never repeats a name; when the content's own oshi
\* yields a name the list is that name and the spot tables are not read;
\* only when it yields none the list holds the names of the followed oshis
\* reached through the content's spots, each once.
C14_DirectNameElseThroughSpots ==
    RelatedCalled =>
        /\ NoRepeatedName(outcome.names)
        /\ DirectNames(call.content, call.db) # {} =>
               /\ Range(outcome.names) = DirectNames(call.content, call.db)
               /\ outcome.queried \cap {"spot_content", "spot_oshi"} = {}
        /\ DirectNames(call.content, call.db) = {} =>
               /\ Range(outcome.names) = TransitiveNames(call.content, call.db)
               /\ "spot_content" \in outcome.queried

\* C14 witness: a content without an oshi of its own whose two spots both
\* belong to the same two followed oshis; the list holds the two names.
C14_Witness ==
    /\ RelatedCalled
    /\ DirectNames(call.content, call.db) = {}
    /\ call.db.spot_oshi = RelatedSpotIds \X Oshis
    /\ Cardinality(call.db.spot_content) = MaxRelatedSpots
    /\ Len(outcome.names) = 2


(***************************************************************************)
(* The random generator.                                                   *)
(***************************************************************************)
\* C15 as stated: the shuffles of a playlist request draw on no generator
\* shared by the process; the process-wide generator is neither seeded nor
\* advanced by a request.
C15_ProcessWideGeneratorUntouched == random_inst = FreshGenerator


(***************************************************************************)
(* The polyline decoder.                                                   *)
(***************************************************************************)
Decoded == pc = "decoded"

\* a character at which a value ends: its 0x20 flag is clear
EndsValue(char) == char - 63 < 32

ValuesEnded(s) == Cardinality({i \in 1 .. Len(s) : EndsValue(s[i])})

\* the string neither stops inside a value nor after a latitude alone
WholePairs(s) ==
    \/ s = <<>>
    \/ EndsValue(s[Len(s)]) /\ ValuesEnded(s) % 2 = 0

\* C16: decode_polyline raises on no string; a string that stops inside a
\* value or after a latitude without longitude gives the empty list, any
\* other string one point per pair of values.
C16_TruncatedGivesEmptyElseOnePointPerPair ==
    Decoded =>
        /\ ~outcome.raised
        /\ ~WholePairs(call.polyline) => outcome.points = <<>>
        /\ WholePairs(call.polyline) =>
               2 * Len(outcome.points) = ValuesEnded(call.polyline)

\* C16 witness: a string holding a whole pair and then breaking off is
\* answered with the empty list.
C16_Witness ==
    /\ Decoded
    /\ ValuesEnded(call.polyline) >= 2
    /\ ~WholePairs(call.polyline)
    /\ outcome.points = <<>>

\* the points in units of 1e-5 degree
UnscaledPoints(points) ==
    [i \in 1 .. Len(points) |-> <<points[i][1].num, points[i][2].num>>]

InHundredThousandths(points) ==
    \A i \in 1 .. Len(points) :
        points[i][1].den = 100000 /\ points[i][2].den = 100000

SamePoint(p, lat, lng) == RatEq(p[1], lat) /\ RatEq(p[2], lng)

\* C17: decode_polyline inverts the standard encoding (the string of an
\* encoded point list decodes to points, scaled by 1e-5, whose encoding is
\* that string again; the encoding is one-to-one, so these are the encoded
\* points in their order), and the reference string decodes to
\* (38.5, -120.2) followed by (40.7, -120.95).
C17_DecodesStandardEncoding ==
    Decoded =>
        /\ call.polyline \in EncodedPolylines =>
               /\ InHundredThousandths(outcome.points)
               /\ EncodePolyline(<<0, 0>>, UnscaledPoints(outcome.points))
                      = call.polyline
        /\ call.polyline = ReferencePolyline =>
               /\ Len(outcome.points) = 3
               /\ SamePoint(outcome.points[1], Rat(385, 10), Rat(-1202, 10))
               /\ SamePoint(outcome.points[2], Rat(407, 10), Rat(-2419, 20))

\* C17 witness: the reference string decoded to its three points.
C17_Witness ==
    /\ Decoded
    /\ call.polyline = ReferencePolyline
    /\ Len(outcome.points) = 3


(***************************************************************************)
(* The distance of a point to a route.                                     *)
(***************************************************************************)
DistanceCalled == pc = "distance_done"

SpotPoint == <<call.spot_lat, call.spot_lng>>

\* the arc between two points of the meridian
ArcBetween(p, q) == EpsAbs(EpsSub(p[1], q[1]))

\* C18: for an empty route the distance is +infinity, for every point.
C18_EmptyRouteIsInfinitelyFar ==
    (DistanceCalled /\ call.route_points = <<>>) => outcome.inf

\* C18 witness: a point off the origin asked against the empty route.
C18_Witness ==
    /\ DistanceCalled
    /\ call.route_points = <<>>
    /\ call.spot_lat # Degrees(0)
    /\ outcome.inf

\* C19 as stated: for a route of one point r the distance is the finite
\* great-circle distance from the point to r.
C19_OnePointRouteGivesDistanceToIt ==
    (DistanceCalled /\ Len(call.route_points) = 1) =>
        /\ ~outcome.inf
        /\ outcome.arc = ArcBetween(SpotPoint, call.route_points[1])

\* C20 as stated: for a non-empty route and a point equal to one of its
\* vertices the distance is 0.
C20_VertexIsAtDistanceZero ==
    (DistanceCalled /\ \E i \in 1 .. Len(call.route_points) :
                          call.route_points[i] = SpotPoint) =>
        /\ ~outcome.inf
        /\ EpsIsZero(outcome.arc)


\* the geometric distance, as an arc, of a point of the meridian to the
\* segment between two of its points
ArcToSegment(p, p1, p2) ==
    IF \/ (~EpsLt(p[1], p1[1]) /\ ~EpsLt(p2[1], p[1]))
       \/ (~EpsLt(p[1], p2[1]) /\ ~EpsLt(p1[1], p[1]))
    THEN Degrees(0)
    ELSE IF EpsLt(ArcBetween(p, p2), ArcBetween(p, p1))
         THEN ArcBetween(p, p2) ELSE ArcBetween(p, p1)

LastVertex == call.route_points[Len(call.route_points)]

\* the point lies past the far end of the last segment, which has two
\* distinct ends, and no earlier segment is nearer than the last vertex
BeyondLastVertex ==
    /\ Len(call.route_points) >= 2
    /\ LET p1 == call.route_points[Len(call.route_points) - 1]
       IN  /\ p1 # LastVertex
           /\ SpotPoint # LastVertex
           /\ ArcToSegment(SpotPoint, p1, LastVertex)
                  = ArcBetween(SpotPoint, LastVertex)
           /\ EpsLt(ArcBetween(SpotPoint, LastVertex), ArcBetween(SpotPoint, p1))
    /\ \A i \in 1 .. Len(call.route_points) - 2 :
           ~EpsLt(ArcToSegment(SpotPoint, call.route_points[i],
                               call.route_points[i + 1]),
                  ArcBetween(SpotPoint, LastVertex))

\* C21 as stated: for a point past the end of the route, with no earlier
\* segment nearer, the distance is the great-circle distance to the last
\* vertex.
C21_BeyondTheEndGivesDistanceToLastVertex ==
    (DistanceCalled /\ BeyondLastVertex) =>
        /\ ~outcome.inf
        /\ EpsIsZero(EpsSub(outcome.arc, ArcBetween(SpotPoint, LastVertex)))


\* the reference's t: the same dot product over segLen squared with segLen
\* in kilometres, i.e. over (MetresPerDegree / 1000)^2 times the arc squared
ReferenceT(p, p1, p2) ==
    LET numerator == EpsAdd(EpsMul(EpsSub(p[1], p1[1]), EpsSub(p2[1], p1[1])),
                            EpsMul(EpsSub(p[2], p1[2]), EpsSub(p2[2], p1[2])))
        arc_squared == EpsMul(ArcBetween(p1, p2), ArcBetween(p1, p2))
    IN  WithEps(Rat(0, 1),
                RatMul(Rat(1000000, 1),
                       RatDiv(numerator.std, arc_squared.std)))

\* the reference's distance of a point to one segment
ReferenceSegmentDistance(p, p1, p2) ==
    IF EpsIsZero(ArcBetween(p1, p2)) THEN ArcBetween(p, p1)
    ELSE LET t == ReferenceT(p, p1, p2)
         IN  IF t.eps.num <= 0 THEN ArcBetween(p, p1)
             ELSE IF DotAtLeastOne(t) THEN ArcBetween(p, p2)
             ELSE EpsAbs(EpsSub(p[1],
                     EpsAdd(p1[1], EpsMul(t, EpsSub(p2[1], p1[1])))))

EpsSame(u, v) == EpsIsZero(EpsSub(u, v))

Segments == 1 .. Len(call.route_points) - 1

\* C22 as stated: for a route of two or more points the result is the
\* least of the reference's per-segment distances, and on every segment of
\* distinct ends the code's dot_product is the reference's t.
C22_MinimumOfReferenceSegmentDistances ==
    (DistanceCalled /\ Len(call.route_points) >= 2) =>
        /\ ~outcome.inf
        /\ \E i \in Segments :
               EpsSame(outcome.arc,
                       ReferenceSegmentDistance(SpotPoint, call.route_points[i],
                                                call.route_points[i + 1]))
        /\ \A i \in Segments :
               ~EpsLt(ReferenceSegmentDistance(SpotPoint, call.route_points[i],
                                               call.route_points[i + 1]),
                      outcome.arc)
        /\ \A i \in Segments :
               call.route_points[i] # call.route_points[i + 1] =>
                   EpsSame(DotProduct(call.spot_lat, call.spot_lng,
                                      call.route_points[i][1],
                                      call.route_points[i][2],
                                      call.route_points[i + 1][1],
                                      call.route_points[i + 1][2],
                                      ArcBetween(call.route_points[i],
                                                 call.route_points[i + 1])),
                           ReferenceT(SpotPoint, call.route_points[i],
                                      call.route_points[i + 1]))


(***************************************************************************)
(* get_spots_along_route.                                                  *)
(***************************************************************************)
AlongReturned == pc = "along_done" /\ along_response.status_code = 200

\* the route the request's polyline decodes to
DecodedRoute == RoutePoints(decode_polyline(along_request.polyline).points)

\* the distance of a row of the spots table to that route
DistanceToDecodedRoute(s) ==
    calculate_distance_to_route(Degrees(s.lat), Degrees(s.lng), DecodedRoute)

\* more than buffer_m metres (buffer_m >= 0); a whole number of degrees is
\* a fraction of a metre longer than that number of MetresPerDegree
FartherThan(d, buffer_m) ==
    \/ d.inf
    \/ /\ d.arc.std.num # 0
       /\ MetresPerDegree * d.arc.std.num >= buffer_m * d.arc.std.den
    \/ d.arc.std.num = 0 /\ d.arc.eps.num # 0 /\ buffer_m = 0

ReturnedIds ==
    {along_response.items[i].id : i \in 1 .. Len(along_response.items)}

\* C23: every spot get_spots_along_route returns is a row of the spots table
\* whose calculate_distance_to_route to the decoded route is at most
\* buffer_m, the list is in ascending order of distance_m, and it has at
\* most limit elements.
C23_ReturnedSpotsWithinBufferSortedAndLimited ==
    AlongReturned =>
        /\ \A i \in 1 .. Len(along_response.items) :
               \E k \in 1 .. Len(spots) :
                   /\ spots[k].id = along_response.items[i].id
                   /\ ~FartherThan(DistanceToDecodedRoute(spots[k]),
                                   along_request.buffer_m)
        /\ \A i \in 1 .. Len(along_response.items) - 1 :
               along_response.items[i].distance_m
                   <= along_response.items[i + 1].distance_m
        /\ Len(along_response.items) <= along_request.limit

\* two spots returned in the reverse of their table order, a third one
\* scanned and left out as too far
C23_Witness ==
    /\ AlongReturned
    /\ Len(along_response.items) = 2
    /\ along_response.items[1].id > along_response.items[2].id
    /\ along_response.items[1].distance_m < along_response.items[2].distance_m
    /\ \E k \in 1 .. Len(candidates) :
           /\ candidates[k].id \notin ReturnedIds
           /\ FartherThan(DistanceToDecodedRoute(candidates[k]),
                          along_request.buffer_m)


AlongAnswered == pc = "along_done"

UndecodablePolyline == decode_polyline(along_request.polyline).points = <<>>

\* C28: when the polyline decodes to an empty sequence, the endpoint answers
\* HTTP 422 'Invalid polyline' and returns no spot list.
C28_UndecodablePolylineAnswers422 ==
    (AlongAnswered /\ UndecodablePolyline) =>
        /\ along_response.status_code = 422
        /\ along_response.detail = "Invalid polyline"
        /\ along_response.items = <<>>

InCorridor(s) ==
    ~FartherThan(DistanceToDecodedRoute(s), along_request.buffer_m)

\* C30: when get_spots_along_route returns fewer than limit spots, every row
\* of the spots table within buffer_m of the decoded route is in the
\* returned list.
C30_CompleteUpToLimit ==
    (AlongReturned /\ Len(along_response.items) < along_request.limit) =>
        \A k \in 1 .. Len(spots) :
            InCorridor(spots[k]) => spots[k].id \in ReturnedIds


(***************************************************************************)
(* haversine_km.                                                           *)
(***************************************************************************)
HaversineCalled == pc = "haversine_done"

SamePlace == call.lat1 = call.lat2 /\ call.lon1 = call.lon2

Allowed == request.target_duration_min + request.tolerance_min

\* C25: while the playlist is composed the running total never exceeds
\* target + tolerance; every returned summary has overage_min <=
\* tolerance_min and efficiency_score >= 0.8, exactly 1.0 when the tolerance
\* is 0; the score is never computed for tolerance 0 and a total above the
\* target.
C25_TotalWithinToleranceAndScoreAtLeastEightTenths ==
    /\ Composing =>
           /\ current_duration <= Allowed
           /\ SumDurations(playlist) <= Allowed
    /\ pc = "summary" =>
           ~(request.tolerance_min = 0
                 /\ current_duration > request.target_duration_min)
    /\ Returned200 =>
           /\ response.summary.total_duration_min <= Allowed
           /\ response.summary.overage_min <= request.tolerance_min
           /\ ~response.summary.efficiency_score.raised
           /\ RatLeq(Rat(8, 10), response.summary.efficiency_score)
           /\ request.tolerance_min = 0 =>
                  RatEq(response.summary.efficiency_score, Rat(1, 1))

\* a returned playlist that uses the whole tolerance and scores exactly 0.8
C25_Witness ==
    /\ Returned200
    /\ response.summary.overage_min > 0
    /\ response.summary.overage_min = request.tolerance_min
    /\ RatEq(response.summary.efficiency_score, Rat(8, 10))

\* a second case of C25: tolerance 0 and a playlist that meets the target
C25_ZeroToleranceReached ==
    /\ Returned200
    /\ request.tolerance_min = 0
    /\ response.summary.total_duration_min = request.target_duration_min


\* C26: in every returned playlist the k-th entry's total_duration_min is
\* the sum of duration_min over entries 1..k, so it grows strictly along
\* the playlist and the last entry's value is summary.total_duration_min;
\* remaining_min is max(0, target - total_duration_min), never negative.
C26_EntriesCarryPrefixSums ==
    Returned200 =>
        LET entries == response.playlist
            n == Len(entries)
        IN  /\ \A k \in 1 .. n :
                   /\ entries[k].total_duration_min
                          = SumDurations(SubSeq(entries, 1, k))
                   /\ entries[k].remaining_min >= 0
                   /\ entries[k].remaining_min
                          = IF request.target_duration_min
                                   - entries[k].total_duration_min > 0
                            THEN request.target_duration_min
                                     - entries[k].total_duration_min
                            ELSE 0
            /\ \A k \in 1 .. n - 1 :
                   entries[k].total_duration_min
                       < entries[k + 1].total_duration_min
            /\ n > 0 =>
                   entries[n].total_duration_min
                       = response.summary.total_duration_min

\* a returned playlist of several entries whose last one passes the target
C26_Witness ==
    /\ Returned200
    /\ Len(response.playlist) >= 2
    /\ response.playlist[1].remaining_min > 0
    /\ response.playlist[Len(response.playlist)].remaining_min = 0
    /\ response.playlist[Len(response.playlist)].total_duration_min
           > request.target_duration_min


(***************************************************************************)
(* follow_oshi and unfollow_oshi.                                          *)
(***************************************************************************)
\* the request's step from its SELECT to its answer
Answers(i) == sessions[i].pc = "checked" /\ sessions'[i].pc = "done"

\* C27: follow_oshi on a pair already followed answers HTTP 400 'Already
\* following this oshi', unfollow_oshi on a pair not followed answers HTTP
\* 404 'Not following this oshi', and in both cases the follow table is
\* left as it was.
C27_PreconditionFailuresKeepTheirStatus ==
    [][\A i \in DOMAIN sessions :
           /\ (Answers(i) /\ sessions[i].op = "follow"
                   /\ sessions[i].existing_follow) =>
                  /\ sessions'[i].response.status_code = 400
                  /\ sessions'[i].response.detail = "Already following this oshi"
                  /\ user_oshi' = user_oshi
           /\ (Answers(i) /\ sessions[i].op = "unfollow"
                   /\ ~sessions[i].existing_follow) =>
                  /\ sessions'[i].response.status_code = 404
                  /\ sessions'[i].response.detail = "Not following this oshi"
                  /\ user_oshi' = user_oshi]_vars


AllAnswered == \A i \in DOMAIN sessions : sessions[i].pc = "done"

\* the requests on the pair (1, o)
RequestsOn(o) == {i \in DOMAIN sessions : sessions[i].oshi_id = o}

\* two or more follow requests, and nothing else, on a pair without a row
\* when they start (no unfollow runs on it, so a row from before would
\* still be there)
FollowsRaceOn(o) ==
    /\ Cardinality(RequestsOn(o)) >= 2
    /\ \A i \in RequestsOn(o) : sessions[i].op = "follow"
    /\ \A k \in RowsOfPair(user_oshi, 1, o) : user_oshi[k].registered_at # 0

Succeeded(o) ==
    {i \in RequestsOn(o) : sessions[i].response.status_code = 200}

====
